---- MODULE Spec2Model ----
(***************************************************************************)
(* A model of beanie-index-demo: a FastAPI service that stores places in   *)
(* a MongoDB collection through beanie.                                    *)
(*                                                                         *)
(*   app_factory.py            app_init: client, init_beanie, routes       *)
(*   routes.py                 places_from_file, places_by_word,           *)
(*                             places_by_radius                            *)
(*   models/data_models.py     GeoObject, Place and its two indexes        *)
(*   models/interface_models.py  the request and response shapes           *)
(*                                                                         *)
(* A text is the sequence of its Unicode code points, so that strip,       *)
(* split, float() and the comparison of names are computed.  A float is    *)
(* a double, written as its sign, the decimal digits of its mantissa and   *)
(* its binary exponent; coordinates, distances and radii are floats.       *)
(***************************************************************************)
EXTENDS Integers, Sequences, FiniteSets, TLC

VARIABLES
    phase,      \* "startup", "serving" or "failed": the ASGI lifespan
    pc,         \* the statement of app_init that runs next (1..4)
    indexes,    \* the indexes of the collection "places"
    routes,     \* the paths the application serves
    store,      \* the collection "places": its documents in insertion order
    imported,   \* history: per document, the Placemark it was uploaded as
    calls       \* per client: the handler call it waits for, or its answer

vars == <<phase, pc, indexes, routes, store, imported, calls>>

----------------------------------------------------------------------------
(* Bounds of the model.                                                    *)

MaxStore == 3
MaxFolders == 2
MaxPlacemarks == 2
MaxSkip == 2
MaxLimit == 2

(* PlacesAroundInput.radius: float = 1000 *)
DefaultRadius == 1000

(* Optional[...]: None, or a value. *)
None == << >>
Some(x) == <<x>>

Min(a, b) == IF a <= b THEN a ELSE b

Range(s) == {s[i] : i \in 1..Len(s)}

(* seq[:n] *)
FirstN(seq, n) == SubSeq(seq, 1, Min(n, Len(seq)))

(* seq[n:] *)
DropN(seq, n) == SubSeq(seq, Min(n, Len(seq)) + 1, Len(seq))

----------------------------------------------------------------------------
(* Text.  The code points of the characters the model writes down.         *)

CodePoint ==
    (" " :> 32) @@ ("+" :> 43) @@ ("," :> 44) @@ ("-" :> 45) @@ ("." :> 46)
    @@ ("0" :> 48) @@ ("1" :> 49) @@ ("2" :> 50) @@ ("3" :> 51)
    @@ ("4" :> 52) @@ ("5" :> 53) @@ ("6" :> 54) @@ ("7" :> 55)
    @@ ("8" :> 56) @@ ("9" :> 57) @@ ("C" :> 67) @@ ("E" :> 69)
    @@ ("_" :> 95) @@ ("a" :> 97) @@ ("b" :> 98) @@ ("c" :> 99)
    @@ ("d" :> 100) @@ ("e" :> 101) @@ ("f" :> 102) @@ ("g" :> 103)
    @@ ("h" :> 104) @@ ("i" :> 105) @@ ("j" :> 106) @@ ("k" :> 107)
    @@ ("l" :> 108) @@ ("m" :> 109) @@ ("n" :> 110) @@ ("o" :> 111)
    @@ ("p" :> 112) @@ ("q" :> 113) @@ ("r" :> 114) @@ ("s" :> 115)
    @@ ("t" :> 116) @@ ("u" :> 117) @@ ("v" :> 118) @@ ("w" :> 119)
    @@ ("x" :> 120) @@ ("y" :> 121) @@ ("z" :> 122)
    @@ ("\t" :> 9) @@ ("\n" :> 10) @@ ("\r" :> 13)

(* The text that a sequence of characters spells. *)
Text(chars) == [i \in 1..Len(chars) |-> CodePoint[chars[i]]]

(* The characters for which str.isspace() holds: str.strip() drops them.   *)
Whitespace ==
    (9..13) \cup (28..32) \cup {133, 160, 5760} \cup (8192..8202)
    \cup {8232, 8233, 8239, 8287, 12288}

(* s from its first item that is not in spaces. *)
StripLeft(s, spaces) ==
    IF \A i \in 1..Len(s) : s[i] \in spaces THEN << >>
    ELSE SubSeq(s,
                CHOOSE i \in 1..Len(s) :
                    s[i] \notin spaces /\ \A k \in 1..(i - 1) : s[k] \in spaces,
                Len(s))

(* s up to its last item that is not in spaces. *)
StripRight(s, spaces) ==
    IF \A i \in 1..Len(s) : s[i] \in spaces THEN << >>
    ELSE SubSeq(s, 1,
                CHOOSE i \in 1..Len(s) :
                    s[i] \notin spaces
                    /\ \A k \in (i + 1)..Len(s) : s[k] \in spaces)

(* str.strip() *)
strip(s) == StripRight(StripLeft(s, Whitespace), Whitespace)

(* str.split(sep), sep one character: the fields between the separators,   *)
(* empty fields kept, always at least one field.                           *)
RECURSIVE split(_, _)
split(s, sep) ==
    IF \A i \in 1..Len(s) : s[i] # sep
    THEN <<s>>
    ELSE LET i == CHOOSE j \in 1..Len(s) :
                      s[j] = sep /\ \A k \in 1..(j - 1) : s[k] # sep
         IN  <<SubSeq(s, 1, i - 1)>> \o split(SubSeq(s, i + 1, Len(s)), sep)

(* str.lower() on the letters A-Z. *)
Lower(c) == IF c \in 65..90 THEN c + 32 ELSE c

LowerText(s) == [i \in 1..Len(s) |-> Lower(s[i])]

----------------------------------------------------------------------------
(* float(str).                                                             *)
(*                                                                         *)
(* A float is a double, [kind, sign, mantissa, exp]: kind "finite" is the  *)
(* number sign * m * 2^exp, where mantissa is the decimal digits of the    *)
(* integer m, written without leading zeros.  A normal double has          *)
(* 2^52 <= m < 2^53 and MinExp <= exp <= MaxExp; a subnormal double has     *)
(* exp = MinExp and m < 2^52; zero has no digits and exp 0, and keeps its   *)
(* sign.  Every double is written in one way only, so two floats are the   *)
(* same double exactly when they are the same record.  "inf" and "nan"     *)
(* are the values of that name.                                            *)

Finite(sign, mantissa, exp) ==
    [kind |-> "finite", sign |-> sign, mantissa |-> mantissa, exp |-> exp]

Zero(sign) == Finite(sign, << >>, 0)

Infinity(sign) ==
    [kind |-> "inf", sign |-> sign, mantissa |-> << >>, exp |-> 0]

NaN == [kind |-> "nan", sign |-> 1, mantissa |-> << >>, exp |-> 0]

(* 2^52 and 2^53, the bounds of the mantissa of a normal double. *)
TwoTo52 == <<4, 5, 0, 3, 5, 9, 9, 6, 2, 7, 3, 7, 0, 4, 9, 6>>
TwoTo53 == <<9, 0, 0, 7, 1, 9, 9, 2, 5, 4, 7, 4, 0, 9, 9, 2>>

(* The number of decimal digits of a mantissa between them. *)
MantissaLen == 16

(* The least and the greatest exponent of a mantissa of 53 bits. *)
MinExp == -1074
MaxExp == 971

(* The first code points of the runs 0..9 of decimal digits (Unicode       *)
(* category Nd): float() reads any of them as the digit 0-9 it stands for. *)
DecimalZeros ==
    {48, 1632, 1776, 1984, 2406, 2534, 2662, 2790, 2918, 3046, 3174, 3302,
     3430, 3558, 3664, 3792, 3872, 4160, 4240, 6112, 6160, 6470, 6608, 6784,
     6800, 6992, 7088, 7232, 7248, 42528, 43216, 43264, 43472, 43504, 43600,
     44016, 65296, 66720, 68912, 69734, 69872, 69942, 70096, 70384, 70736,
     70864, 71248, 71360, 71472, 71904, 72016, 72784, 73040, 73120, 92768,
     92864, 93008, 120782, 120792, 120802, 120812, 120822, 123200, 123632,
     125264, 130032}

IsDecimal(c) == \E z \in DecimalZeros : c \in z..(z + 9)

DecimalOf(c) == c - (CHOOSE z \in DecimalZeros : c \in z..(z + 9))

(* What float() makes of a character before it reads the text: an ASCII    *)
(* character stays, any other whitespace becomes a space, any other        *)
(* decimal digit the ASCII digit, and anything else a question mark.       *)
Ascii(c) ==
    IF c < 127 THEN c
    ELSE IF c \in Whitespace THEN 32
    ELSE IF IsDecimal(c) THEN 48 + DecimalOf(c)
    ELSE 63

(* The whitespace float() drops around the text so made: of the ASCII      *)
(* characters not the separators 28..31 that str.strip() drops.            *)
FloatSpace == (9..13) \cup {32}

FloatStrip(s) ==
    StripRight(StripLeft([i \in 1..Len(s) |-> Ascii(s[i])], FloatSpace),
               FloatSpace)

IsDigit(c) == c \in 48..57

IsDigits(s) == \A i \in 1..Len(s) : IsDigit(s[i])

(* The digits 0..9 that a text of digit characters spells. *)
DigitsOf(s) == [i \in 1..Len(s) |-> s[i] - 48]

DropLeadingZeros(d) == StripLeft(d, {0})

DropTrailingZeros(d) == StripRight(d, {0})

(* 0.d1d2... < 0.e1e2..., digit by digit, a missing digit being 0. *)
RECURSIVE DigitsLess(_, _)
DigitsLess(d, e) ==
    IF e = << >> THEN FALSE
    ELSE IF d = << >> THEN \E i \in 1..Len(e) : e[i] # 0
    ELSE IF Head(d) # Head(e) THEN Head(d) < Head(e)
    ELSE DigitsLess(Tail(d), Tail(e))

(* x < y for 0.d1d2... * 10^dpoint and 0.e1e2... * 10^epoint, d1 and e1    *)
(* not 0.                                                                  *)
MagnitudeLess(d, dpoint, e, epoint) ==
    IF dpoint # epoint THEN dpoint < epoint ELSE DigitsLess(d, e)

RECURSIVE DecimalValue(_)
DecimalValue(d) ==
    IF d = << >> THEN 0
    ELSE 10 * DecimalValue(SubSeq(d, 1, Len(d) - 1)) + d[Len(d)]

(* The value of the digits of an exponent.  After its leading zeros an    *)
(* exponent of more than nine digits is taken as 1100000000, which is      *)
(* more than the digits of a text can make up for: a text has fewer than   *)
(* 10^9 of them.                                                           *)
ExponentValue(d) ==
    IF Len(DropLeadingZeros(d)) > 9 THEN 1100000000
    ELSE DecimalValue(DropLeadingZeros(d))

(* A decimal number 0.d1d2... * 10^point, d1 and the last digit not 0. *)
Number(digits, point) == [digits |-> digits, point |-> point]

(* Digit k of 0.d1d2..., 0 outside the digits written. *)
DigitAt(d, k) == IF k \in 1..Len(d) THEN d[k] ELSE 0

(* The integer that the nine digits before digit k spell. *)
NineBefore(d, k) ==
    DigitAt(d, k - 1) + 10 * DigitAt(d, k - 2) + 100 * DigitAt(d, k - 3)
    + 1000 * DigitAt(d, k - 4) + 10000 * DigitAt(d, k - 5)
    + 100000 * DigitAt(d, k - 6) + 1000000 * DigitAt(d, k - 7)
    + 10000000 * DigitAt(d, k - 8) + 100000000 * DigitAt(d, k - 9)

(* Digit k of 0.d1d2... / n by long division, for n a divisor of 10^9:     *)
(* the remainder that the digits before k leave is that of the last nine   *)
(* of them.                                                                *)
QuotientDigit(d, n, k) == (10 * (NineBefore(d, k) % n) + DigitAt(d, k)) \div n

(* The digits of 0.d1d2... / n, which end at most nine places after those  *)
(* of d.                                                                   *)
Quotient(d, n) ==
    [k \in 1..Len(d) |-> QuotientDigit(d, n, k)]
    \o [k \in 1..9 |-> QuotientDigit(d, n, Len(d) + k)]

(* The number 0.q1q2... * 10^point without the zeros at its ends. *)
Trimmed(q, point) ==
    Number(DropTrailingZeros(DropLeadingZeros(q)),
           point - (Len(q) - Len(DropLeadingZeros(q))))

(* x * 2^s for s in -9..9, exactly: x / 2^-s, or x / 5^s * 10^s. *)
Shifted(x, s) ==
    IF s >= 0 THEN Trimmed(Quotient(x.digits, 5 ^ s), x.point + s)
    ELSE Trimmed(Quotient(x.digits, 2 ^ (0 - s)), x.point)

(* x * 2^s for s in -18..18. *)
Scale(x, s) ==
    IF s > 9 THEN Shifted(Shifted(x, 9), s - 9)
    ELSE IF s < -9 THEN Shifted(Shifted(x, -9), s + 9)
    ELSE Shifted(x, s)

(* x * 2^72 for s = 9, x / 2^72 for s = -9: eight steps. *)
Eightfold(x, s) ==
    Shifted(Shifted(Shifted(Shifted(
        Shifted(Shifted(Shifted(Shifted(x, s), s), s), s), s), s), s), s)

Max(S) == CHOOSE m \in S : \A t \in S : t <= m

(* The last steps to a mantissa: the most doublings, of those the          *)
(* exponent e leaves down to MinExp, that keep x below 2^53.               *)
BelowTwoTo53(x) == MagnitudeLess(x.digits, x.point, TwoTo53, MantissaLen)

LastSteps(x, e) ==
    Max({s \in -18..Min(18, e - MinExp) : BelowTwoTo53(Scale(x, s))})

(* x * 2^e brought to the exponent of the double nearest to it: x scaled   *)
(* by powers of 2 into 2^52 <= x < 2^53, or as far up to there as an       *)
(* exponent of MinExp lets it be.  The steps are of 72 and of 9 powers     *)
(* while x is so far from the mantissas that a step cannot pass them       *)
(* (2^72 < 10^22 and 2^9 < 10^3), and are counted out at the end.          *)
RECURSIVE Normalised(_, _)
Normalised(x, e) ==
    CASE x.point >= MantissaLen + 1 + 22 ->
             Normalised(Eightfold(x, -9), e + 72)
      [] x.point \in (MantissaLen + 1 + 3)..(MantissaLen + 22) ->
             Normalised(Shifted(x, -9), e + 9)
      [] x.point <= MantissaLen - 1 - 22 /\ e - 72 >= MinExp ->
             Normalised(Eightfold(x, 9), e - 72)
      [] /\ x.point <= MantissaLen - 1 - 3
         /\ e - 9 >= MinExp
         /\ ~(x.point <= MantissaLen - 1 - 22 /\ e - 72 >= MinExp) ->
             Normalised(Shifted(x, 9), e - 9)
      [] OTHER ->
             [number |-> Scale(x, LastSteps(x, e)),
              exp |-> e - LastSteps(x, e)]

(* The digits of x before the point. *)
Whole(x) ==
    IF x.point <= 0 THEN << >>
    ELSE [i \in 1..x.point |->
             IF i <= Len(x.digits) THEN x.digits[i] ELSE 0]

(* The digits of x after the point; those of a number below 0.1 start     *)
(* with 0.                                                                 *)
AfterPoint(x) == IF x.point < 0 THEN <<0>> ELSE DropN(x.digits, x.point)

(* Round to nearest, a tie to the even neighbour. *)
RoundsUp(whole, after) ==
    /\ after # << >>
    /\ \/ after[1] > 5
       \/ /\ after[1] = 5
          /\ \/ Len(after) > 1
             \/ whole # << >> /\ whole[Len(whole)] % 2 = 1

(* whole + 1 *)
RECURSIVE Increment(_)
Increment(whole) ==
    IF whole = << >> THEN <<1>>
    ELSE IF whole[Len(whole)] < 9
    THEN [whole EXCEPT ![Len(whole)] = @ + 1]
    ELSE Increment(SubSeq(whole, 1, Len(whole) - 1)) \o <<0>>

Nearest(whole, after) ==
    IF RoundsUp(whole, after) THEN Increment(whole) ELSE whole

(* The double sign * m * 2^e: a mantissa rounded up to 2^53 is 2^52 with   *)
(* the next exponent, and above MaxExp the double is infinity.             *)
Bounded(sign, m, e) ==
    IF e > MaxExp THEN Infinity(sign) ELSE Finite(sign, m, e)

Double(sign, m, e) ==
    IF m = << >> THEN Zero(sign)
    ELSE IF m = TwoTo53 THEN Bounded(sign, TwoTo52, e + 1)
    ELSE Bounded(sign, m, e)

RoundedAt(sign, n) ==
    Double(sign, Nearest(Whole(n.number), AfterPoint(n.number)), n.exp)

(* The double nearest to sign * 0.d1d2... * 10^point, d1 not 0.  Numbers   *)
(* of 10^309 and more are beyond the largest double and round to           *)
(* infinity, numbers below 10^-324 are less than half the smallest         *)
(* double and round to zero.                                               *)
Rounded(sign, digits, point) ==
    IF point > 309 THEN Infinity(sign)
    ELSE IF point < -323 THEN Zero(sign)
    ELSE RoundedAt(sign, Normalised(Number(digits, point), 0))

(* The float of all the digits of the mantissa, the number of them before  *)
(* the point, and the exponent.                                            *)
Scaled(sign, all, whole, exponent) ==
    IF DropLeadingZeros(all) = << >> THEN Zero(sign)
    ELSE Rounded(sign, DropTrailingZeros(DropLeadingZeros(all)),
                 whole - (Len(all) - Len(DropLeadingZeros(all))) + exponent)

NotAFloat == [ok |-> FALSE, value |-> Zero(1)]

IsFloat(x) == [ok |-> TRUE, value |-> x]

(* digits [. digits], with a digit on at least one side. *)
Fraction(parts) == IF Len(parts) = 2 THEN parts[2] ELSE << >>

Mantissa(sign, parts, exponent) ==
    IF /\ Len(parts) \in {1, 2}
       /\ \A i \in 1..Len(parts) : IsDigits(parts[i])
       /\ \E i \in 1..Len(parts) : parts[i] # << >>
    THEN IsFloat(Scaled(sign, DigitsOf(parts[1] \o Fraction(parts)),
                        Len(parts[1]), exponent))
    ELSE NotAFloat

(* The sign that a text starts with. *)
Sign(t) == IF t # << >> /\ Head(t) = 45 THEN -1 ELSE 1

(* The exponent after e or E: [sign] digits. *)
Unsigned(t) == IF t # << >> /\ Head(t) \in {43, 45} THEN Tail(t) ELSE t

ExponentOk(t) == Unsigned(t) # << >> /\ IsDigits(Unsigned(t))

ExponentOf(t) == Sign(t) * ExponentValue(DigitsOf(Unsigned(t)))

(* mantissa [e exponent] *)
Decimal(sign, parts) ==
    IF Len(parts) = 1 THEN Mantissa(sign, split(parts[1], 46), 0)
    ELSE IF Len(parts) = 2 /\ ExponentOk(parts[2])
    THEN Mantissa(sign, split(parts[1], 46), ExponentOf(parts[2]))
    ELSE NotAFloat

(* After the sign: "inf", "infinity" or "nan" in any case, or a decimal. *)
Magnitude(sign, t) ==
    IF t \in {Text(<<"i", "n", "f">>),
              Text(<<"i", "n", "f", "i", "n", "i", "t", "y">>)}
    THEN IsFloat(Infinity(sign))
    ELSE IF t = Text(<<"n", "a", "n">>) THEN IsFloat(NaN)
    ELSE Decimal(sign, split(t, 101))

(* An underscore is read over when it stands between two digits, and is    *)
(* an error anywhere else.                                                 *)
UnderscoresOk(t) ==
    \A i \in 1..Len(t) :
        t[i] = 95 => /\ i > 1 /\ IsDigit(t[i - 1])
                     /\ i < Len(t) /\ IsDigit(t[i + 1])

WithoutUnderscores(t) == SelectSeq(t, LAMBDA c : c # 95)

(* float() of a text already made ASCII and stripped. *)
FloatOfAscii(t) ==
    IF ~UnderscoresOk(t) THEN NotAFloat
    ELSE Magnitude(Sign(t), LowerText(Unsigned(WithoutUnderscores(t))))

(* float(t): surrounding whitespace is dropped, then                       *)
(* [sign] (inf | infinity | nan | digits [. digits] [e [sign] digits]);    *)
(* anything else is a ValueError.                                          *)
FloatOf(t) == FloatOfAscii(FloatStrip(t))

(* m < n for the digits of two integers without leading zeros. *)
MantissaLess(m, n) ==
    IF Len(m) # Len(n) THEN Len(m) < Len(n) ELSE DigitsLess(m, n)

(* |x| <= |bound| for a float x and a finite bound. *)
Within(x, bound) ==
    /\ x.kind = "finite"
    /\ \/ x.mantissa = << >>
       \/ /\ bound.mantissa # << >>
          /\ \/ x.exp < bound.exp
             \/ /\ x.exp = bound.exp
                /\ ~MantissaLess(bound.mantissa, x.mantissa)

(* x >= 0 for a finite float x. *)
NonNegative(x) == x.kind = "finite" /\ (x.sign = 1 \/ x.mantissa = << >>)

(* The decimal digits of a whole number n > 0. *)
RECURSIVE Digits(_)
Digits(n) == IF n < 10 THEN <<n>> ELSE Append(Digits(n \div 10), n % 10)

(* float(n) of an int n. *)
ToDouble(n) ==
    IF n = 0 THEN Zero(1)
    ELSE IF n < 0
    THEN Rounded(-1, DropTrailingZeros(Digits(0 - n)), Len(Digits(0 - n)))
    ELSE Rounded(1, DropTrailingZeros(Digits(n)), Len(Digits(n)))

----------------------------------------------------------------------------
(* The uploaded file.  An element's children of one tag are a sequence;    *)
(* element.tag is the first of them and raises AttributeError when there   *)
(* is none (lxml.objectify).  The names and descriptions of the model are  *)
(* texts that lxml.objectify reads as strings, not as numbers or booleans. *)

HasChild(children) == children # << >>
Child(children) == children[1]

NameB == Text(<<" ", "b">>)
NameD == Text(<<"d">>)
NameCB == Text(<<"C", " ", "b">>)
DescriptionAC == Text(<<"a", " ", "c", " ">>)
DescriptionB == Text(<<"b">>)
CoordinatesLonLatAlt ==
    Text(<<"1", "2", ".", "3", "4", ",", "5", "6", ".", "7", "8", ",", "0">>)
CoordinatesPadded == Text(<<"\n", " ", "0", ",", "1", "\t">>)
CoordinatesExponent == Text(<<"1", "e", "0", ",", "0", "_", "0">>)
CoordinatesBeyondPole == Text(<<"0", ",", "1", "E", "2">>)
CoordinatesOneField == Text(<<"5">>)

SampleCoordinates ==
    {CoordinatesLonLatAlt, CoordinatesPadded, CoordinatesExponent,
     CoordinatesBeyondPole, CoordinatesOneField}

PointAt(c) == <<[coordinates |-> <<c>>]>>

PlacemarkFull ==
    [name |-> <<NameB>>, description |-> <<DescriptionAC>>,
     Point |-> PointAt(CoordinatesLonLatAlt)]
PlacemarkNoDescription ==
    [name |-> <<NameD>>, description |-> << >>,
     Point |-> PointAt(CoordinatesPadded)]
PlacemarkTwoWords ==
    [name |-> <<NameCB>>, description |-> <<DescriptionB>>,
     Point |-> PointAt(CoordinatesExponent)]
PlacemarkBeyondPole ==
    [name |-> <<NameD>>, description |-> <<DescriptionB>>,
     Point |-> PointAt(CoordinatesBeyondPole)]
PlacemarkNoName ==
    [name |-> << >>, description |-> <<DescriptionB>>,
     Point |-> PointAt(CoordinatesPadded)]
PlacemarkNoCoordinates ==
    [name |-> <<NameD>>, description |-> << >>,
     Point |-> <<[coordinates |-> << >>]>>]
PlacemarkOneField ==
    [name |-> <<NameB>>, description |-> << >>,
     Point |-> PointAt(CoordinatesOneField)]

Placemarks ==
    {PlacemarkFull, PlacemarkNoDescription, PlacemarkTwoWords,
     PlacemarkBeyondPole, PlacemarkNoName, PlacemarkNoCoordinates,
     PlacemarkOneField}

SeqsUpTo(S, n) == UNION {[1..k -> S] : k \in 0..n}

RECURSIVE Sum(_)
Sum(s) == IF s = << >> THEN 0 ELSE Head(s) + Sum(Tail(s))

(* The Placemarks of flat, dealt in order into folders of the given sizes. *)
RECURSIVE Folders(_, _)
Folders(flat, sizes) ==
    IF sizes = << >> THEN << >>
    ELSE <<[Placemark |-> FirstN(flat, Head(sizes))]>>
         \o Folders(DropN(flat, Head(sizes)), Tail(sizes))

(* A file that is not well-formed XML. *)
Unparsable == [wellformed |-> FALSE, Folder |-> << >>]

(* Every Document of at most MaxFolders Folders and MaxPlacemarks          *)
(* Placemarks in all; a Folder may be empty.                               *)
Documents ==
    {Unparsable} \cup
    {[wellformed |-> TRUE, Folder |-> Folders(flat, sizes)] :
        <<flat, sizes>> \in
            {fs \in SeqsUpTo(Placemarks, MaxPlacemarks)
                       \X SeqsUpTo(0..MaxPlacemarks, MaxFolders) :
                 Sum(fs[2]) = Len(fs[1])}}

RECURSIVE AllPlacemarks(_)
AllPlacemarks(folders) ==
    IF folders = << >> THEN << >>
    ELSE Head(folders).Placemark \o AllPlacemarks(Tail(folders))

NumPlacemarks(file) == Len(AllPlacemarks(file.Folder))

----------------------------------------------------------------------------
(* models/data_models.py                                                   *)

(* GeoType.point *)
GeoTypePoint == "Point"

(* float() of the texts between the commas of the coordinates that the     *)
(* files of the model hold, worked out once.                               *)
FieldFloats ==
    [t \in UNION {Range(split(strip(c), 44)) : c \in SampleCoordinates} |->
        FloatOf(t)]

(* The float that pydantic makes of a str item of Tuple[float, float]:     *)
(* float(s).                                                               *)
ParseFloat(s) ==
    IF s \in DOMAIN FieldFloats THEN FieldFloats[s] ELSE FloatOf(s)

NotAGeoObject ==
    [ok |-> FALSE, value |-> [type |-> GeoTypePoint, coordinates |-> << >>]]

GeoObjectOf(x, y) ==
    IF x.ok /\ y.ok
    THEN [ok |-> TRUE,
          value |-> [type |-> GeoTypePoint,
                     coordinates |-> <<x.value, y.value>>]]
    ELSE NotAGeoObject

(* GeoObject(coordinates=c): coordinates is Tuple[float, float], so c must  *)
(* hold exactly two items and each must be a float or parse as one.  Here  *)
(* c is a list of str, as places_from_file passes it.                      *)
GeoObject(c) ==
    IF Len(c) = 2 THEN GeoObjectOf(ParseFloat(c[1]), ParseFloat(c[2]))
    ELSE NotAGeoObject

(* GeoObject(coordinates=c) for c a pair of floats already validated. *)
GeoPoint(c) == [type |-> GeoTypePoint, coordinates |-> <<c[1], c[2]>>]

(* Place(name=..., description=..., geo=...): a document not yet inserted; *)
(* its id is None and is left out of what is written.                      *)
Place(name, description, geo) ==
    [name |-> name, description |-> description, geo |-> geo]

(* Place.Collection.indexes *)
TextIndex == "text(name,description)"
GeoIndex == "2dsphere(geo)"
PlaceIndexes == {TextIndex, GeoIndex}

(* The bounds of a longitude and of a latitude, in degrees. *)
MaxLongitude ==
    Finite(1, <<6, 3, 3, 3, 1, 8, 6, 9, 7, 5, 9, 8, 9, 7, 6, 0>>, -45)
MaxLatitude ==
    Finite(1, <<6, 3, 3, 3, 1, 8, 6, 9, 7, 5, 9, 8, 9, 7, 6, 0>>, -46)

(* The 2dsphere index takes a document only when its geo is a GeoJSON      *)
(* point on the sphere: a longitude in [-180, 180] and a latitude in       *)
(* [-90, 90].  A write of any other document fails.                        *)
OnSphere(geo) ==
    /\ Within(geo.coordinates[1], MaxLongitude)
    /\ Within(geo.coordinates[2], MaxLatitude)

Indexable(ixs, place) == GeoIndex \in ixs => OnSphere(place.geo)

----------------------------------------------------------------------------
(* routes.py: places_from_file                                             *)

(* As CoordinateFields, but with the slice [-2:]. *)
CoordinateFieldsLastTwo(text) ==
    LET f == split(strip(text), 44)
    IN  IF Len(f) <= 2 THEN f ELSE SubSeq(f, Len(f) - 1, Len(f))

(* Line 32: str(...).strip().split(",")[:2] *)
CoordinateFields(text) == FirstN(split(strip(text), 44), 2)

Raised(error) == [ok |-> FALSE, error |-> error]

Built(places) == [ok |-> TRUE, places |-> places]

(* As DescriptionOf, but reading an element that no Placemark has, so that *)
(* the except branch is always taken.                                      *)
DescriptionOfMissing(place_mark) == << >>

(* Lines 24-27: the description, empty when the element is missing. *)
DescriptionOf(place_mark) ==
    IF HasChild(place_mark.description)
    THEN strip(Child(place_mark.description))
    ELSE << >>                                 \* except AttributeError

(* Lines 28-35: Place(...) is validated and appended. *)
Validated(name, description, geo) ==
    IF ~geo.ok THEN Raised("ValidationError")
    ELSE Built(<<Place(name, description, geo.value)>>)

(* Lines 24-35, one pass of the inner loop body. *)
PlaceOf(place_mark) ==
    IF ~HasChild(place_mark.name) THEN Raised("AttributeError")
    ELSE IF \/ ~HasChild(place_mark.Point)
            \/ ~HasChild(Child(place_mark.Point).coordinates)
    THEN Raised("AttributeError")
    ELSE Validated(strip(Child(place_mark.name)),
                   DescriptionOf(place_mark),
                   GeoObject(CoordinateFields(
                       Child(Child(place_mark.Point).coordinates))))

(* The passes of a loop one after the other: the first exception ends it,  *)
(* otherwise the places add up in order.                                   *)
Then(first, rest) ==
    IF ~first.ok THEN first
    ELSE IF ~rest.ok THEN rest
    ELSE Built(first.places \o rest.places)

(* Lines 23-35: for place_mark in folder.Placemark. *)
RECURSIVE PlacesOfPlacemarks(_)
PlacesOfPlacemarks(pms) ==
    IF pms = << >> THEN Built(<< >>)
    ELSE Then(PlaceOf(Head(pms)), PlacesOfPlacemarks(Tail(pms)))

(* Lines 22-35: for folder in root.Document.Folder. *)
RECURSIVE PlacesOfFolders(_)
PlacesOfFolders(folders) ==
    IF folders = << >> THEN Built(<< >>)
    ELSE IF ~HasChild(Head(folders).Placemark) THEN Raised("AttributeError")
    ELSE Then(PlacesOfPlacemarks(Head(folders).Placemark),
              PlacesOfFolders(Tail(folders)))

(* As places_list, but one list that all calls append to. *)
places_shared(held) == held

(* Line 21: places = [], a new list in every call, whatever lists the      *)
(* calls in flight hold.                                                   *)
places_list(held) == << >>

(* Lines 20-35: the places the handler reads from the file, or the         *)
(* exception that ends it before insert_many is reached.  A file that is   *)
(* read without an exception holds a Folder and every Folder a Placemark,  *)
(* so the list is never empty.                                             *)
ReadPlaces(file) ==
    IF ~file.wellformed THEN Raised("XMLSyntaxError")
    ELSE IF ~HasChild(file.Folder) THEN Raised("AttributeError")
    ELSE PlacesOfFolders(file.Folder)

(* The document written for a Place: its fields, and the _id the store     *)
(* gives it.  An _id is the document's position in insertion order.        *)
ToDocument(place, id) ==
    [_id |-> id, name |-> place.name, description |-> place.description,
     geo |-> place.geo]

(* As InsertOne, but writing over the collection. *)
InsertOneReplacing(coll, place) == <<ToDocument(place, 1)>>

(* Line 36, in the store: one document of insert_many is written, after    *)
(* those the collection holds.                                             *)
InsertOne(coll, place) == Append(coll, ToDocument(place, Len(coll) + 1))

(* StatusResponse(status=ResponseStatuses.OK) *)
StatusResponse == [status |-> "OK"]

(* What the framework answers when the handler raises. *)
InternalServerError(error) == [status |-> 500, body |-> [error |-> error]]

Ok(body) == [status |-> 200, body |-> body]

----------------------------------------------------------------------------
(* routes.py: places_by_word                                               *)

(* The characters that end a word for the text index: white space and      *)
(* punctuation.  Letters, digits and the underscore make up the words.     *)
TextDelimiters ==
    (9..13) \cup (32..47) \cup (58..64) \cup (91..94) \cup {96}
    \cup (123..126)

(* The number of characters of s before its first delimiter. *)
RECURSIVE WordLen(_)
WordLen(s) ==
    IF s = << >> \/ Head(s) \in TextDelimiters THEN 0
    ELSE 1 + WordLen(Tail(s))

(* The words of a text. *)
RECURSIVE Tokens(_)
Tokens(s) ==
    IF s = << >> THEN {}
    ELSE IF Head(s) \in TextDelimiters THEN Tokens(Tail(s))
    ELSE {FirstN(s, WordLen(s))} \cup Tokens(DropN(s, WordLen(s)))

(* The stop words of the index language (english, the default) that have   *)
(* one or two letters.                                                     *)
StopWords ==
    {Text(w) : w \in
        {<<"a">>, <<"i">>, <<"a", "m">>, <<"a", "n">>, <<"a", "s">>,
         <<"a", "t">>, <<"b", "e">>, <<"b", "y">>, <<"d", "o">>,
         <<"h", "e">>, <<"i", "f">>, <<"i", "n">>, <<"i", "s">>,
         <<"i", "t">>, <<"m", "e">>, <<"m", "y">>, <<"n", "o">>,
         <<"o", "f">>, <<"o", "n">>, <<"o", "r">>, <<"s", "o">>,
         <<"t", "o">>, <<"u", "p">>, <<"w", "e">>}}

(* The stem of a word.  The English stemmer leaves a word of one or two    *)
(* letters as it is; the words of the model are no longer.                 *)
Stem(word) == word

(* The terms the text index keeps of a field, and a $search of its words:  *)
(* the words in lower case, without the stop words, stemmed.  The searches *)
(* of the model are words and spaces, without the quotes and the hyphen    *)
(* that make a phrase or a negation.                                       *)
Terms(text) ==
    {Stem(w) : w \in {LowerText(t) : t \in Tokens(text)} \ StopWords}

(* As TextMatches, but with an index on name alone. *)
TextMatchesName(doc, search_words) ==
    Terms(search_words) \cap Terms(doc.name) # {}

(* {"$text": {"$search": search_words}} over the index on name and         *)
(* description: a document matches when it holds one of the searched terms *)
(* in either field.                                                        *)
TextMatches(doc, search_words) ==
    Terms(search_words) \cap (Terms(doc.name) \cup Terms(doc.description))
        # {}

(* str < str as the store compares field values: code point by code       *)
(* point, a proper prefix first.                                           *)
RECURSIVE StrLess(_, _)
StrLess(s, t) ==
    IF t = << >> THEN FALSE
    ELSE IF s = << >> THEN TRUE
    ELSE IF Head(s) # Head(t) THEN Head(s) < Head(t)
    ELSE StrLess(Tail(s), Tail(t))

Orderings(S) ==
    {f \in [1..Cardinality(S) -> S] :
        \A i, j \in 1..Cardinality(S) : i # j => f[i] # f[j]}

(* As SortedByName, but without the sort: the documents as inserted. *)
InInsertionOrder(docs) ==
    {f \in Orderings(docs) :
        \A i, j \in 1..Len(f) : i < j => f[i]._id < f[j]._id}

(* sort="name": the matching documents by name ascending.  The store       *)
(* leaves the order of documents with equal names open, so every order     *)
(* that is ascending by name is a possible one.                            *)
SortedByName(docs) ==
    {f \in Orderings(docs) :
        \A i, j \in 1..Len(f) : i < j => ~StrLess(f[j].name, f[i].name)}

(* cursor.skip(n) *)
Skip(seq, n) == DropN(seq, n)

(* cursor.limit(n): a limit of 0 is no limit. *)
Limit(seq, n) == IF n = 0 THEN seq ELSE FirstN(seq, n)

SkipIfGiven(seq, skip) == IF skip = None THEN seq ELSE Skip(seq, skip[1])

LimitIfGiven(seq, limit) == IF limit = None THEN seq ELSE Limit(seq, limit[1])

(* find_many(..., skip=skip, limit=limit, sort="name"): skip and limit are *)
(* applied to the sorted cursor when they are not None.                    *)
Window(sorted, skip, limit) == LimitIfGiven(SkipIfGiven(sorted, skip), limit)

(* Place.parse_obj(doc): _id is the id, the strings and the doubles are    *)
(* the values that were written, and geo is a GeoObject of the two         *)
(* coordinates.                                                            *)
FromDocument(doc) ==
    [id |-> doc._id, name |-> doc.name, description |-> doc.description,
     geo |-> [type |-> doc.geo.type,
              coordinates |-> <<doc.geo.coordinates[1],
                                doc.geo.coordinates[2]>>]]

(* .to_list() of a find_many cursor: each document as a Place. *)
Places(docs) == [i \in 1..Len(docs) |-> FromDocument(docs[i])]

(* The responses places_by_word can give. *)
FindMany(coll, ixs, search_words, skip, limit) ==
    IF TextIndex \notin ixs
    THEN {InternalServerError("OperationFailure")}
    ELSE {Ok(Places(Window(sorted, skip, limit))) :
            sorted \in SortedByName(
                {d \in Range(coll) : TextMatches(d, search_words)})}

----------------------------------------------------------------------------
(* routes.py: places_by_radius                                             *)

(* (0, 0), (0, 1), (12.34, 56.78), (1, 0) and (0, 100), as doubles. *)
PointA == <<Zero(1), Zero(1)>>
PointB == <<Zero(1), Finite(1, TwoTo52, -52)>>
PointC ==
    <<Finite(1, <<6, 9, 4, 6, 8, 0, 2, 4, 2, 5, 2, 1, 8, 9, 9, 0>>, -49),
      Finite(1, <<7, 9, 9, 1, 0, 7, 4, 5, 8, 8, 8, 1, 5, 5, 2, 4>>, -47)>>
PointD == <<Finite(1, TwoTo52, -52), Zero(1)>>
PointE ==
    <<Zero(1), Finite(1, <<7, 0, 3, 6, 8, 7, 4, 4, 1, 7, 7, 6, 6, 4, 0, 0>>, -46)>>

(* The distance in metres that $geoNear computes between two GeoJSON       *)
(* points on a 2dsphere index: the angle between them times the earth      *)
(* radius of 6378100 m, a double.  For the points of the model, in the     *)
(* order of the table:                                                     *)
(*   (0, 0) - (0, 1)           111318.84502145034                          *)
(*   (0, 0) - (12.34, 56.78)  6416714.579065952                            *)
(*   (0, 0) - (1, 0)           111318.84502145034                          *)
(*   (0, 1) - (12.34, 56.78)  6306482.279866009                            *)
(*   (0, 1) - (1, 0)           157424.6238723255                           *)
(*   (12.34, 56.78) - (1, 0)  6401890.53116921                             *)
Metres ==
    (<<PointA, PointB>> :>
        Finite(1, <<7, 6, 4, 9, 7, 7, 2, 7, 8, 0, 7, 2, 9, 9, 4, 6>>, -36))
    @@ (<<PointA, PointC>> :>
        Finite(1, <<6, 8, 8, 9, 8, 9, 4, 8, 1, 6, 2, 1, 3, 6, 6, 8>>, -30))
    @@ (<<PointA, PointD>> :>
        Finite(1, <<7, 6, 4, 9, 7, 7, 2, 7, 8, 0, 7, 2, 9, 9, 4, 6>>, -36))
    @@ (<<PointB, PointC>> :>
        Finite(1, <<6, 7, 7, 1, 5, 3, 3, 7, 8, 6, 2, 0, 7, 0, 0, 7>>, -30))
    @@ (<<PointB, PointD>> :>
        Finite(1, <<5, 4, 0, 9, 0, 6, 8, 8, 8, 8, 9, 3, 3, 9, 1, 1>>, -35))
    @@ (<<PointC, PointD>> :>
        Finite(1, <<6, 8, 7, 3, 9, 7, 7, 6, 1, 5, 9, 8, 5, 9, 5, 6>>, -30))

(* The distance of a point from itself is 0. *)
Distance(p, q) ==
    IF p = q THEN Zero(1)
    ELSE IF <<p, q>> \in DOMAIN Metres THEN Metres[<<p, q>>]
    ELSE Metres[<<q, p>>]

(* The default of radius, as the number the store reads. *)
DefaultMetres == ToDouble(DefaultRadius)

(* PlacesAroundInput built from the request body: radius defaults to       *)
(* DefaultRadius.                                                          *)
PlacesAroundInput(body) ==
    [coordinates |-> body.coordinates,
     radius |-> IF body.radius = None THEN DefaultMetres ELSE body.radius[1]]

(* As GeoNearStage, but without maxDistance. *)
GeoNearStageUnbounded(point, radius) ==
    [near |-> point, distanceField |-> "distance", maxDistance |-> None]

(* Lines 56-62: the $geoNear stage of the pipeline. *)
GeoNearStage(point, radius) ==
    [near |-> point, distanceField |-> "distance",
     maxDistance |-> Some(radius)]

(* $geoNear refuses a stage whose near is not a point on the sphere or     *)
(* whose maxDistance is negative.                                          *)
Refused(stage) ==
    \/ ~OnSphere(stage.near)
    \/ stage.maxDistance # None /\ ~NonNegative(stage.maxDistance[1])

(* $geoNear: every document that is no farther from near than             *)
(* maxDistance, when the stage has one, with its distance from near added  *)
(* in the field that distanceField names.                                  *)
GeoNear(coll, stage) ==
    {d @@ (stage.distanceField :>
              Distance(stage.near.coordinates, d.geo.coordinates)) :
        d \in {e \in Range(coll) :
                 \/ stage.maxDistance = None
                 \/ Within(Distance(stage.near.coordinates,
                                    e.geo.coordinates),
                           stage.maxDistance[1])}}

(* A $geoNear result read as a PlaceWithDistance: a Place and the field    *)
(* distance.                                                               *)
PlaceWithDistance(doc) ==
    [id |-> doc._id, name |-> doc.name, description |-> doc.description,
     geo |-> [type |-> doc.geo.type,
              coordinates |-> <<doc.geo.coordinates[1],
                                doc.geo.coordinates[2]>>],
     distance |-> doc.distance]

(* .to_list() of the aggregation: each result as a PlaceWithDistance. *)
PlacesWithDistance(docs) ==
    [i \in 1..Len(docs) |-> PlaceWithDistance(docs[i])]

(* $geoNear returns the nearest first; documents equally far come in an    *)
(* order the store leaves open.                                            *)
SortedByDistance(docs) ==
    {f \in Orderings(docs) :
        \A i, j \in 1..Len(f) : i < j => Within(f[i].distance, f[j].distance)}

(* The responses places_by_radius can give: the store refuses the          *)
(* pipeline, aggregate raises OperationFailure and the handler ends with   *)
(* it, or the results are returned.                                        *)
Aggregate(coll, ixs, stage) ==
    IF GeoIndex \notin ixs \/ Refused(stage)
    THEN {InternalServerError("OperationFailure")}
    ELSE {Ok(PlacesWithDistance(sorted)) :
            sorted \in SortedByDistance(GeoNear(coll, stage))}

----------------------------------------------------------------------------
(* The requests the model draws.                                           *)

NoResponse == [status |-> 0]

SearchTexts ==
    {Text(<<"a">>), Text(<<"b">>), Text(<<"c">>), Text(<<"c", " ", "d">>)}

OptionalUpTo(n) == {None} \cup {Some(k) : k \in 0..n}

PlacesByWordInputs ==
    [op : {"search"}, search_words : SearchTexts,
     skip : OptionalUpTo(MaxSkip), limit : OptionalUpTo(MaxLimit)]

(* The centres of a radius search: points on the sphere, and (0, 100),     *)
(* whose latitude is beyond the pole.                                      *)
Centres == {PointA, PointB, PointC, PointD, PointE}

(* The radii of a radius search: none, 0, two that reach some of the       *)
(* places and not others, and a negative one.                              *)
Radii ==
    {None, Some(Zero(1)), Some(ToDouble(160000)), Some(ToDouble(6402000)),
     Some(ToDouble(-1))}

PlacesAroundBodies == [op : {"around"}, coordinates : Centres, radius : Radii]

UploadPath == "/v1/upload/"
SearchPath == "/v1/search/"
AroundPath == "/v1/around/"

(* Lines 18, 40 and 50 under prefix "/v1". *)
PlaceRoutes == {UploadPath, SearchPath, AroundPath}

Clients == {1, 2}

Idle == [pc |-> "idle"]

----------------------------------------------------------------------------
(* app_factory.py: app_init, the startup handler.  Its statements run in   *)
(* order; the server accepts requests once the handler has returned, and   *)
(* never if it raised.                                                     *)

(* As app_init_statements, but with the routes added before init_beanie. *)
app_init_routes_first == <<"motor_client", "include_router", "init_beanie">>

app_init_statements == <<"motor_client", "init_beanie", "include_router">>

Init ==
    /\ phase = "startup"
    /\ pc = 1
    /\ indexes = {}
    /\ routes = {}
    /\ store = << >>
    /\ imported = << >>
    /\ calls = [c \in Clients |-> Idle]

AtStatement(name) ==
    /\ phase = "startup"
    /\ pc <= Len(app_init_statements)
    /\ app_init_statements[pc] = name

Advance ==
    /\ pc' = pc + 1
    /\ phase' = IF pc + 1 > Len(app_init_statements)
                THEN "serving" ELSE "startup"

(* Lines 26-28: the client is created; it does not connect yet. *)
app_init_client ==
    /\ AtStatement("motor_client")
    /\ Advance
    /\ UNCHANGED <<indexes, routes, store, imported, calls>>

(* Line 31: init_beanie returns, having created the indexes of Place. *)
app_init_beanie ==
    /\ AtStatement("init_beanie")
    /\ indexes' = indexes \cup PlaceIndexes
    /\ Advance
    /\ UNCHANGED <<routes, store, imported, calls>>

(* Line 31: init_beanie raises (the store is unreachable within the        *)
(* 100 ms of server selection): startup fails and the process ends.        *)
app_init_beanie_raises ==
    /\ AtStatement("init_beanie")
    /\ phase' = "failed"
    /\ UNCHANGED <<pc, indexes, routes, store, imported, calls>>

(* Line 34: the routes are added. *)
app_init_routes ==
    /\ AtStatement("include_router")
    /\ routes' = routes \cup PlaceRoutes
    /\ Advance
    /\ UNCHANGED <<indexes, store, imported, calls>>

----------------------------------------------------------------------------
(* The handlers.  Each client sends one request at a time and waits for    *)
(* its answer.  A handler runs without suspending up to its await.         *)
(* places_from_file awaits insert_many: the store writes the documents of  *)
(* the call one at a time, in the order of the list, and between two of    *)
(* them, and before the call returns, the other client's handler may run.  *)
(* places_by_word and places_by_radius await one query, which the store    *)
(* answers from the collection as it is at that moment.                    *)

(* The server takes a request of client c on the path. *)
Accepts(c, path) ==
    /\ phase = "serving"
    /\ path \in routes
    /\ calls[c].pc = "idle"

(* The call of client c has ended with the response.  before is the        *)
(* collection as it was when the request came in, ids are the _id values   *)
(* of the documents the call has written.                                  *)
Answered(request, before, places, ids, response) ==
    [pc |-> "done", request |-> request, before |-> before,
     places |-> places, ids |-> ids, response |-> response]

(* The lists of the other calls that are past line 21. *)
RECURSIVE HeldBy(_, _)
HeldBy(state, cs) ==
    IF cs = {} THEN << >>
    ELSE LET c == CHOOSE x \in cs : \A y \in cs : x <= y
         IN  (IF state[c].pc = "insert_many" THEN state[c].places ELSE << >>)
             \o HeldBy(state, cs \ {c})

ListOf(held, read) == IF read.ok THEN held \o read.places ELSE held

(* Lines 19-36 up to the await: the exception that ended the handler, or   *)
(* the call of insert_many with the list.                                  *)
Begun(request, before, read, places) ==
    IF ~read.ok
    THEN Answered(request, before, << >>, << >>,
                  InternalServerError(read.error))
    ELSE [pc |-> "insert_many", request |-> request, before |-> before,
          places |-> places, ids |-> << >>, response |-> NoResponse]

(* routes.py 19-36: POST /v1/upload/ with a file. *)
places_from_file(c, file) ==
    /\ Accepts(c, UploadPath)
    /\ calls' = [calls EXCEPT ![c] =
                    Begun([op |-> "upload", file |-> file], store,
                          ReadPlaces(file),
                          ListOf(places_list(HeldBy(calls, Clients \ {c})),
                                 ReadPlaces(file)))]
    /\ UNCHANGED <<phase, pc, indexes, routes, store, imported>>

InsertMany(c) == calls[c].pc = "insert_many"

Written(c) == Len(calls[c].ids)

NextPlace(c) == calls[c].places[Written(c) + 1]

(* The Placemark that the next place of the list was read from: the list   *)
(* holds one place per Placemark of the file, in the order of the file.    *)
Source(c) ==
    FirstN(DropN(AllPlacemarks(calls[c].request.file.Folder), Written(c)), 1)

(* routes.py 36, in the store: the next document of the call is written. *)
insert_many_write(c) ==
    /\ InsertMany(c)
    /\ Written(c) < Len(calls[c].places)
    /\ Indexable(indexes, NextPlace(c))
    /\ store' = InsertOne(store, NextPlace(c))
    /\ imported' = imported \o Source(c)
    /\ calls' = [calls EXCEPT ![c].ids = Append(@, Len(store) + 1)]
    /\ UNCHANGED <<phase, pc, indexes, routes>>

(* routes.py 36: the store refuses the next document; insert_many is       *)
(* ordered, so it stops there and raises, leaving the documents written    *)
(* so far in the collection, and the handler ends with the exception.      *)
insert_many_raises(c) ==
    /\ InsertMany(c)
    /\ Written(c) < Len(calls[c].places)
    /\ ~Indexable(indexes, NextPlace(c))
    /\ calls' = [calls EXCEPT ![c] =
                    Answered(calls[c].request, calls[c].before,
                             calls[c].places, calls[c].ids,
                             InternalServerError("BulkWriteError"))]
    /\ UNCHANGED <<phase, pc, indexes, routes, store, imported>>

(* routes.py 36-37: insert_many returns and the handler answers. *)
insert_many_returns(c) ==
    /\ InsertMany(c)
    /\ Written(c) = Len(calls[c].places)
    /\ calls' = [calls EXCEPT ![c] =
                    Answered(calls[c].request, calls[c].before,
                             calls[c].places, calls[c].ids,
                             Ok(StatusResponse))]
    /\ UNCHANGED <<phase, pc, indexes, routes, store, imported>>

(* routes.py 41-47: POST /v1/search/ with a PlacesByWordInput. *)
places_by_word(c, input_data) ==
    /\ Accepts(c, SearchPath)
    /\ \E response \in FindMany(store, indexes, input_data.search_words,
                                input_data.skip, input_data.limit) :
          calls' = [calls EXCEPT ![c] =
                       Answered(input_data, store, << >>, << >>, response)]
    /\ UNCHANGED <<phase, pc, indexes, routes, store, imported>>

(* routes.py 51-65: POST /v1/around/ with coordinates and, optionally, a   *)
(* radius.                                                                 *)
places_by_radius(c, body) ==
    /\ Accepts(c, AroundPath)
    /\ \E response \in
             Aggregate(store, indexes,
                       GeoNearStage(
                           GeoPoint(PlacesAroundInput(body).coordinates),
                           PlacesAroundInput(body).radius)) :
          calls' = [calls EXCEPT ![c] =
                       Answered(body, store, << >>, << >>, response)]
    /\ UNCHANGED <<phase, pc, indexes, routes, store, imported>>

(* The response reaches client c, which may send its next request. *)
Respond(c) ==
    /\ calls[c].pc = "done"
    /\ calls' = [calls EXCEPT ![c] = Idle]
    /\ UNCHANGED <<phase, pc, indexes, routes, store, imported>>

(* The model looks at an answer before it takes another step of a handler; *)
(* reading an answer changes nothing that a handler sees, so every order   *)
(* of the handlers' steps is still taken.                                  *)
Quiet == \A c \in Clients : calls[c].pc # "done"

RECURSIVE Unwritten(_)
Unwritten(cs) ==
    IF cs = {} THEN 0
    ELSE LET c == CHOOSE x \in cs : TRUE
         IN  (IF InsertMany(c) THEN Len(calls[c].places) - Written(c) ELSE 0)
             + Unwritten(cs \ {c})

(* The collection of the model holds at most MaxStore documents. *)
Fits(file) ==
    Len(store) + Unwritten(Clients) + NumPlacemarks(file) <= MaxStore

Next ==
    \/ app_init_client
    \/ app_init_beanie
    \/ app_init_beanie_raises
    \/ app_init_routes
    \/ \E c \in Clients, file \in Documents :
          Quiet /\ Fits(file) /\ places_from_file(c, file)
    \/ \E c \in Clients : Quiet /\ insert_many_write(c)
    \/ \E c \in Clients : Quiet /\ insert_many_raises(c)
    \/ \E c \in Clients : Quiet /\ insert_many_returns(c)
    \/ \E c \in Clients, input_data \in PlacesByWordInputs :
          Quiet /\ places_by_word(c, input_data)
    \/ \E c \in Clients, body \in PlacesAroundBodies :
          Quiet /\ places_by_radius(c, body)
    \/ \E c \in Clients : Respond(c)

Spec == Init /\ [][Next]_vars

----------------------------------------------------------------------------
(* Two clients that upload at the same time, each once, to a server that   *)
(* is serving.                                                             *)

ConcPlacemarks ==
    {PlacemarkFull, PlacemarkNoDescription, PlacemarkBeyondPole,
     PlacemarkNoName}

ConcDocuments ==
    {d \in Documents :
        /\ d.wellformed
        /\ Len(d.Folder) = 1
        /\ Range(AllPlacemarks(d.Folder)) \subseteq ConcPlacemarks}

(* The uploads a started server may have had: none, or one of a Placemark. *)
EarlierUploads == {<< >>, <<PlacemarkTwoWords>>}

InitConc ==
    /\ phase = "serving"
    /\ pc = Len(app_init_statements) + 1
    /\ indexes = PlaceIndexes
    /\ routes = PlaceRoutes
    /\ imported \in EarlierUploads
    /\ store = [i \in 1..Len(imported) |->
                   ToDocument(PlaceOf(imported[i]).places[1], i)]
    /\ calls = [c \in Clients |-> Idle]

NextConc ==
    \/ \E c \in Clients, file \in ConcDocuments : places_from_file(c, file)
    \/ \E c \in Clients : insert_many_write(c)
    \/ \E c \in Clients : insert_many_raises(c)
    \/ \E c \in Clients : insert_many_returns(c)

SpecConc == InitConc /\ [][NextConc]_vars

----------------------------------------------------------------------------
(* The properties checked.  An answer is looked at in the state in which   *)
(* the call has just ended: under Spec the collection is then as the       *)
(* handler left it.                                                        *)

Done(c, op) == calls[c].pc = "done" /\ calls[c].request.op = op

UploadedPlacemarks(c) == AllPlacemarks(calls[c].request.file.Folder)

CoordinatesText(pm) == Child(Child(pm.Point).coordinates)

HasNameAndCoordinates(pm) ==
    /\ HasChild(pm.name)
    /\ HasChild(pm.Point)
    /\ HasChild(Child(pm.Point).coordinates)

TwoFieldsOnSphere(pm) ==
    LET f == split(strip(CoordinatesText(pm)), 44)
    IN  /\ Len(f) >= 2
        /\ ParseFloat(f[1]).ok
        /\ ParseFloat(f[2]).ok
        /\ Within(ParseFloat(f[1]).value, MaxLongitude)
        /\ Within(ParseFloat(f[2]).value, MaxLatitude)

(* C1: an upload of a document with n >= 1 Placemarks, each with a name    *)
(* and with Point.coordinates that start with a longitude and a latitude,  *)
(* is answered with success and adds exactly n documents to the            *)
(* collection, one per Placemark in document order, a Placemark without    *)
(* description giving a place whose description is the empty string.       *)
C1_EveryPlacemarkIsStored ==
    \A c \in Clients :
        (/\ Done(c, "upload")
         /\ calls[c].request.file.wellformed
         /\ Len(UploadedPlacemarks(c)) >= 1
         /\ \A i \in 1..Len(UploadedPlacemarks(c)) :
               /\ HasNameAndCoordinates(UploadedPlacemarks(c)[i])
               /\ TwoFieldsOnSphere(UploadedPlacemarks(c)[i]))
        => /\ calls[c].response.status = 200
           /\ Len(calls[c].ids) = Len(UploadedPlacemarks(c))
           /\ \A i \in 1..Len(calls[c].ids) :
                 LET pm == UploadedPlacemarks(c)[i]
                     doc == store[calls[c].ids[i]]
                 IN  /\ doc.name = strip(Child(pm.name))
                     /\ ~HasChild(pm.description) => doc.description = << >>
                     /\ HasChild(pm.description)
                            => doc.description = strip(Child(pm.description))

(* C2: every document of the collection has exactly two coordinate         *)
(* values; the i-th document that an upload has written holds the values   *)
(* of the first and the second comma-separated field of the i-th           *)
(* Placemark's coordinates text, in that order, whatever follows them;     *)
(* the text "12.34,56.78,0" is stored as (12.34, 56.78); and an upload     *)
(* answered with success has written one document per Placemark.           *)
C2_CoordinatesAreFirstTwoFields ==
    /\ \A i \in 1..Len(store) : Len(store[i].geo.coordinates) = 2
    /\ \A c \in Clients :
          Done(c, "upload")
          => /\ calls[c].response.status = 200
                    => Len(calls[c].ids) = Len(UploadedPlacemarks(c))
             /\ Len(calls[c].ids) <= Len(UploadedPlacemarks(c))
             /\ \A i \in 1..Len(calls[c].ids) :
                   LET text == CoordinatesText(UploadedPlacemarks(c)[i])
                       f == split(strip(text), 44)
                       stored == store[calls[c].ids[i]].geo.coordinates
                   IN  /\ stored[1] = ParseFloat(f[1]).value
                       /\ stored[2] = ParseFloat(f[2]).value
                       /\ text = CoordinatesLonLatAlt
                              => stored = PointC

(* A successful upload of a Placemark whose coordinates have an altitude. *)
C2_Witness ==
    \E c \in Clients :
        /\ Done(c, "upload")
        /\ calls[c].response.status = 200
        /\ \E i \in 1..Len(UploadedPlacemarks(c)) :
              /\ CoordinatesText(UploadedPlacemarks(c)[i])
                     = CoordinatesLonLatAlt
              /\ Len(split(CoordinatesLonLatAlt, 44)) = 3
              /\ store[calls[c].ids[i]].geo.coordinates = PointC

MalformedPayload(file) ==
    \/ ~file.wellformed
    \/ \E i \in 1..Len(AllPlacemarks(file.Folder)) :
          ~HasNameAndCoordinates(AllPlacemarks(file.Folder)[i])

(* C5: an upload whose payload is malformed (not parsable, or with a       *)
(* Placemark that lacks name or Point.coordinates) is answered with a      *)
(* client error (status 4xx), has written no document and leaves the       *)
(* collection as it was when the request came in.                          *)
C5_MalformedUploadIsClientError ==
    \A c \in Clients :
        (Done(c, "upload") /\ MalformedPayload(calls[c].request.file))
        => /\ calls[c].response.status \in 400..499
           /\ calls[c].ids = << >>
           /\ store = calls[c].before

SearchMatches(c) ==
    {d \in Range(store) : TextMatches(d, calls[c].request.search_words)}

NameAscending(f) ==
    \A i, j \in 1..Len(f) : i < j => ~StrLess(f[j].name, f[i].name)

(* The places of sorted[lo + 1 .. hi]. *)
PlacesBetween(sorted, lo, hi) ==
    [i \in 1..(IF hi > lo THEN hi - lo ELSE 0) |-> FromDocument(sorted[lo + i])]

SkipOrZero(c) ==
    IF calls[c].request.skip = None THEN 0 ELSE calls[c].request.skip[1]

(* C3 as stated: the response to a search is the window [skip, skip+limit) *)
(* of the matching places in an order ascending by name, skip absent       *)
(* meaning 0 and limit absent meaning no bound.                            *)
C3_WindowOfMatchesByName ==
    \A c \in Clients :
        Done(c, "search")
        => /\ calls[c].response.status = 200
           /\ \E sorted \in Orderings(SearchMatches(c)) :
                 /\ NameAscending(sorted)
                 /\ LET n == Len(sorted)
                        lo == Min(SkipOrZero(c), n)
                        hi == IF calls[c].request.limit = None THEN n
                              ELSE Min(lo + calls[c].request.limit[1], n)
                    IN  calls[c].response.body = PlacesBetween(sorted, lo, hi)

(* C3 amended: the response to a search with skip >= 0 or absent and       *)
(* limit >= 0 or absent is the window [skip, skip+limit) of the matching   *)
(* places in an order ascending by name, skip absent meaning 0 and limit   *)
(* absent or 0 meaning no bound; with skip = 1 and limit = 1 over three    *)
(* matches of different names it is exactly the second of them by name.    *)
C3_WindowOfMatchesByNameZeroUnbounded ==
    \A c \in Clients :
        Done(c, "search")
        => /\ calls[c].response.status = 200
           /\ \E sorted \in Orderings(SearchMatches(c)) :
                 /\ NameAscending(sorted)
                 /\ LET n == Len(sorted)
                        lo == Min(SkipOrZero(c), n)
                        hi == IF \/ calls[c].request.limit = None
                                 \/ calls[c].request.limit[1] = 0
                              THEN n
                              ELSE Min(lo + calls[c].request.limit[1], n)
                    IN  calls[c].response.body = PlacesBetween(sorted, lo, hi)
           /\ (/\ calls[c].request.skip = Some(1)
               /\ calls[c].request.limit = Some(1)
               /\ Cardinality(SearchMatches(c)) = 3
               /\ Cardinality({d.name : d \in SearchMatches(c)}) = 3)
              => /\ Len(calls[c].response.body) = 1
                 /\ \E below, above \in SearchMatches(c) :
                       /\ StrLess(below.name, calls[c].response.body[1].name)
                       /\ StrLess(calls[c].response.body[1].name, above.name)

(* A search with skip = 1 and limit = 1 over three matches of different    *)
(* names, inserted in an order that is not the order of their names.       *)
C3_Witness ==
    \E c \in Clients :
        /\ Done(c, "search")
        /\ calls[c].request.skip = Some(1)
        /\ calls[c].request.limit = Some(1)
        /\ Cardinality(SearchMatches(c)) = 3
        /\ Cardinality({d.name : d \in SearchMatches(c)}) = 3
        /\ Len(calls[c].response.body) = 1
        /\ StrLess(store[2].name, store[1].name)

AroundCentre(c) == GeoPoint(calls[c].request.coordinates)

(* 1000.0, the radius of a request that gives none. *)
ThousandMetres == ToDouble(1000)

AroundRadius(c) ==
    IF calls[c].request.radius = None THEN ThousandMetres
    ELSE calls[c].request.radius[1]

(* x * 2^e for a decimal number x, exactly. *)
RECURSIVE TimesTwoTo(_, _)
TimesTwoTo(x, e) ==
    IF e > 9 THEN TimesTwoTo(Shifted(x, 9), e - 9)
    ELSE IF e < -9 THEN TimesTwoTo(Shifted(x, -9), e + 9)
    ELSE Shifted(x, e)

(* The whole metres of a distance: a double that is not negative, rounded  *)
(* down.                                                                   *)
WholeMetres(x) ==
    IF x.mantissa = << >> THEN 0
    ELSE DecimalValue(Whole(TimesTwoTo(
             Number(DropTrailingZeros(x.mantissa), Len(x.mantissa)), x.exp)))

(* The length in whole metres, rounded down, of the great circle arc       *)
(* between two places given as (longitude, latitude) in degrees, on a      *)
(* sphere of radius 6378100 m: one degree along the equator or a meridian  *)
(* is 6378100 * pi / 180 = 111318.845 m.                                   *)
GreatCircleMetres(p, q) ==
    IF p = q THEN 0
    ELSE IF {p, q} = {PointA, PointB} THEN 111318
    ELSE IF {p, q} = {PointA, PointC} THEN 6416714
    ELSE IF {p, q} = {PointA, PointD} THEN 111318
    ELSE IF {p, q} = {PointB, PointC} THEN 6306482
    ELSE IF {p, q} = {PointB, PointD} THEN 157424
    ELSE 6401890

(* The answer to the radius search of client c is a success; it holds the  *)
(* stored places whose distance from the centre is at most the radius and  *)
(* no other, each once, as stored, and with its distance from the centre,  *)
(* which is that of the great circle to the metre; and the distances do    *)
(* not decrease along the sequence.                                        *)
PlacesWithinRadius(c) ==
    /\ calls[c].response.status = 200
    /\ LET body == calls[c].response.body
           centre == calls[c].request.coordinates
           within == {i \in 1..Len(store) :
                         Within(Distance(centre, store[i].geo.coordinates),
                                AroundRadius(c))}
       IN  /\ {body[k].id : k \in 1..Len(body)} = within
           /\ Len(body) = Cardinality(within)
           /\ \A k \in 1..Len(body) :
                 /\ body[k].distance =
                        Distance(centre, store[body[k].id].geo.coordinates)
                 /\ WholeMetres(body[k].distance) =
                        GreatCircleMetres(centre,
                                          store[body[k].id].geo.coordinates)
                 /\ Within(body[k].distance, AroundRadius(c))
                 /\ body[k].name = store[body[k].id].name
                 /\ body[k].description = store[body[k].id].description
                 /\ body[k].geo = store[body[k].id].geo
           /\ \A k \in 1..(Len(body) - 1) :
                 Within(body[k].distance, body[k + 1].distance)

(* C4 as stated: for any centre and radius, the response to a radius       *)
(* search holds exactly the stored places whose distance from the centre   *)
(* is at most the radius (1000 when the request gives none), each with     *)
(* that distance, and the distances do not decrease along the sequence.    *)
C4_WithinRadiusNearestFirst ==
    \A c \in Clients : Done(c, "around") => PlacesWithinRadius(c)

(* C4 amended: for a centre with a longitude in [-180, 180] and a latitude *)
(* in [-90, 90] and a finite radius of 0 or more (1000 when the request    *)
(* gives none), the response to a radius search holds exactly the stored   *)
(* places whose distance from the centre is at most the radius, each with  *)
(* that distance, and the distances do not decrease along the sequence;    *)
(* for any other centre and for a negative radius the store refuses the    *)
(* query, and the request is answered with a server error and leaves the   *)
(* collection as it was.                                                   *)
C4_WithinRadiusNearestFirstOnSphere ==
    \A c \in Clients :
        Done(c, "around")
        => IF OnSphere(AroundCentre(c)) /\ NonNegative(AroundRadius(c))
           THEN PlacesWithinRadius(c)
           ELSE /\ calls[c].response.status = 500
                /\ store = calls[c].before

(* A radius search around a point on the sphere that returns two places at *)
(* different distances and leaves out a stored place that is farther than  *)
(* the radius.                                                             *)
C4_Witness ==
    \E c \in Clients :
        /\ Done(c, "around")
        /\ OnSphere(AroundCentre(c))
        /\ calls[c].request.radius # None
        /\ calls[c].response.status = 200
        /\ Len(calls[c].response.body) = 2
        /\ calls[c].response.body[1].distance
               # calls[c].response.body[2].distance
        /\ Len(store) = 3

(* The text of an element, stripped; the empty text when it is missing. *)
StrippedOrEmpty(children) ==
    IF HasChild(children) THEN strip(Child(children)) ELSE << >>

(* C6: every place that a search returns is a document of the collection,  *)
(* and has the name and the description of the Placemark it was uploaded   *)
(* as, without the surrounding whitespace (the empty description when the  *)
(* Placemark has none), and exactly two coordinates, which are the numbers *)
(* that the first and the second field of the Placemark's coordinates      *)
(* denote, in that order: (12.34, 56.78) for "12.34,56.78,0".              *)
C6_SearchReturnsWhatWasImported ==
    \A c \in Clients :
        (Done(c, "search") /\ calls[c].response.status = 200)
        => \A k \in 1..Len(calls[c].response.body) :
              LET item == calls[c].response.body[k]
              IN  /\ item.id \in 1..Len(imported)
                  /\ item.name
                         = StrippedOrEmpty(imported[item.id].name)
                  /\ item.description
                         = StrippedOrEmpty(
                               imported[item.id].description)
                  /\ Len(item.geo.coordinates) = 2
                  /\ \A n \in 1..2 :
                        item.geo.coordinates[n]
                            = ParseFloat(
                                  split(strip(CoordinatesText(
                                            imported[item.id])), 44)[n]).value
                  /\ CoordinatesText(imported[item.id]) = CoordinatesLonLatAlt
                         => item.geo.coordinates = PointC

(* A search for the word of its name returns the place that was uploaded   *)
(* with the name " b", the description "a c " and the coordinates          *)
(* "12.34,56.78,0".                                                        *)
C6_Witness ==
    \E c \in Clients :
        /\ Done(c, "search")
        /\ calls[c].response.status = 200
        /\ calls[c].request.search_words = Text(<<"b">>)
        /\ \E k \in 1..Len(calls[c].response.body) :
              /\ imported[calls[c].response.body[k].id] = PlacemarkFull
              /\ calls[c].response.body[k].name = Text(<<"b">>)
              /\ calls[c].response.body[k].description
                     = Text(<<"a", " ", "c">>)
              /\ calls[c].response.body[k].geo.coordinates = PointC

FromFirstMatch(c) == calls[c].request.skip \in {None, Some(0)}

(* The word w is written in the description of d, in no other stored       *)
(* description and in no stored name.                                      *)
WrittenOnlyInOneDescription(w, d) ==
    /\ d \in Range(store)
    /\ w \in Tokens(d.description)
    /\ \A e \in Range(store) :
          /\ w \notin Tokens(e.name)
          /\ w \in Tokens(e.description) => e = d

(* C7 as stated: a search, from the first match on, for a word that is     *)
(* written in the description of exactly one stored place and in no        *)
(* stored name returns exactly that place.                                 *)
C7_WordOnlyInDescription ==
    \A c \in Clients :
        (/\ Done(c, "search")
         /\ FromFirstMatch(c)
         /\ Cardinality(Tokens(calls[c].request.search_words)) = 1)
        => \A d \in Range(store) :
              (\A w \in Tokens(calls[c].request.search_words) :
                    WrittenOnlyInOneDescription(w, d))
              => /\ calls[c].response.status = 200
                 /\ calls[c].response.body = <<FromDocument(d)>>

(* The term t is among the index terms of the description of d, of no      *)
(* other stored description and of no stored name.                         *)
TermOnlyInOneDescription(t, d) ==
    /\ d \in Range(store)
    /\ t \in Terms(d.description)
    /\ \A e \in Range(store) :
          /\ t \notin Terms(e.name)
          /\ t \in Terms(e.description) => e = d

(* C7 amended: a search, from the first match on, for one word that is     *)
(* not a stop word and that, taken as the text index takes words (in       *)
(* lower case and stemmed), is a word of the description of exactly one    *)
(* stored place and of no stored name returns exactly that place.          *)
C7_TermOnlyInDescription ==
    \A c \in Clients :
        (/\ Done(c, "search")
         /\ FromFirstMatch(c)
         /\ Cardinality(Tokens(calls[c].request.search_words)) = 1
         /\ Cardinality(Terms(calls[c].request.search_words)) = 1)
        => \A d \in Range(store) :
              (\A t \in Terms(calls[c].request.search_words) :
                    TermOnlyInOneDescription(t, d))
              => /\ calls[c].response.status = 200
                 /\ calls[c].response.body = <<FromDocument(d)>>

(* A search for a word that only the description of one of two stored      *)
(* places holds.                                                           *)
C7_Witness ==
    \E c \in Clients :
        /\ Done(c, "search")
        /\ calls[c].request.skip = None
        /\ Len(store) >= 2
        /\ Cardinality(Terms(calls[c].request.search_words)) = 1
        /\ \E d \in Range(store) :
              /\ \A t \in Terms(calls[c].request.search_words) :
                    TermOnlyInOneDescription(t, d)
              /\ calls[c].response.body = <<FromDocument(d)>>

(* C8: every step keeps every stored document as it is, at its place; a    *)
(* step changes the collection only when it is a write of insert_many in   *)
(* a call of the upload handler, and then it adds one document; a step in  *)
(* which a search or a radius search is answered leaves the collection     *)
(* unchanged.                                                              *)
C8_PlacesOnlyAddedByUpload ==
    [][/\ \A i \in 1..Len(store) : i <= Len(store') /\ store'[i] = store[i]
       /\ store' # store
              => /\ Len(store') = Len(store) + 1
                 /\ \E c \in Clients :
                       /\ calls[c].pc = "insert_many"
                       /\ calls[c].request.op = "upload"
                       /\ calls'[c].ids = Append(calls[c].ids, Len(store'))
       /\ \A c \in Clients :
             (/\ calls[c].pc = "idle"
              /\ calls'[c].pc = "done"
              /\ calls'[c].request.op \in {"search", "around"})
             => store' = store]_vars

(* A search answered from a collection that two uploads have filled. *)
C8_Witness ==
    \E c \in Clients :
        /\ Done(c, "search")
        /\ Len(store) = 3
        /\ store[3].name # store[1].name
        /\ Len(calls[c].response.body) >= 1

(* C9: the routes are mounted only when both indexes of Place exist; a     *)
(* request is in flight or answered only on a serving application with     *)
(* both indexes; and an application whose initialisation failed has no     *)
(* route and never has a request.                                          *)
C9_IndexesBeforeRoutes ==
    /\ routes # {} => PlaceIndexes \subseteq indexes
    /\ \A c \in Clients :
          calls[c] # Idle => phase = "serving" /\ PlaceIndexes \subseteq indexes
    /\ phase = "serving" => routes = PlaceRoutes
    /\ phase = "failed" => routes = {} /\ \A c \in Clients : calls[c] = Idle

(* A radius search answered with a place, which needs the geospatial       *)
(* index.                                                                  *)
C9_Witness ==
    \E c \in Clients :
        /\ Done(c, "around")
        /\ calls[c].response.status = 200
        /\ Len(calls[c].response.body) >= 1
        /\ GeoIndex \in indexes
        /\ phase = "serving"

BothUploadsSucceeded ==
    \A c \in Clients : Done(c, "upload") /\ calls[c].response.status = 200

OwnPlaces(c) == ReadPlaces(calls[c].request.file).places

(* The documents the collection held when the first of the two requests    *)
(* came in.                                                                *)
Earlier == IF Len(calls[1].before) <= Len(calls[2].before)
           THEN calls[1].before ELSE calls[2].before

(* C10: when both concurrent uploads have succeeded, the collection starts *)
(* with the documents it held before, holds besides them exactly one       *)
(* document per place of the two batches, and each upload wrote its own    *)
(* places, in the order of its document, and no document of the other.     *)
C10_ConcurrentUploadsKeepTheirBatches ==
    BothUploadsSucceeded
    => /\ FirstN(store, Len(Earlier)) = Earlier
       /\ Len(store) = Len(Earlier) + Len(OwnPlaces(1)) + Len(OwnPlaces(2))
       /\ Range(calls[1].ids) \cap Range(calls[2].ids) = {}
       /\ \A c \in Clients :
             /\ Len(calls[c].ids) = Len(OwnPlaces(c))
             /\ \A k \in 1..Len(calls[c].ids) :
                   /\ calls[c].ids[k] \in (Len(Earlier) + 1)..Len(store)
                   /\ store[calls[c].ids[k]]
                          = ToDocument(OwnPlaces(c)[k], calls[c].ids[k])
                   /\ k > 1 => calls[c].ids[k - 1] < calls[c].ids[k]

(* Two uploads of two places each have succeeded with their writes         *)
(* interleaved: the first upload's documents are not adjacent.             *)
C10_Witness ==
    /\ BothUploadsSucceeded
    /\ Len(calls[1].ids) = 2
    /\ Len(calls[2].ids) = 2
    /\ calls[1].ids[2] > calls[1].ids[1] + 1
    /\ calls[1].request.file # calls[2].request.file

====
